---------------------------- MODULE Spec2Model ----------------------------
(***************************************************************************)
(* The animation engine of live2d_sample                                   *)
(* (src/src/js/modules/l2dframework/animation.ts): blenders, segment       *)
(* evaluators, AnimationTrack, Animation, AnimationLayer and Animator.     *)
(*                                                                         *)
(* JavaScript numbers are modelled as exact rationals <<n, d>> in lowest   *)
(* terms with d > 0.  A division by zero gives the non-finite value        *)
(* <<0, 0>>, which every arithmetic operator propagates and with which     *)
(* every comparison is false (as with NaN).  Times are in seconds.         *)
(***************************************************************************)
EXTENDS Integers, Sequences, FiniteSets, TLC

(***************************************************************************)
(* Numbers                                                                 *)
(***************************************************************************)
Abs(x) == IF x < 0 THEN -x ELSE x

RECURSIVE GCD(_, _)
GCD(a, b) == IF b = 0 THEN a ELSE GCD(b, a % b)

\* The number n/d.
R(n, d) ==
    IF d = 0 THEN <<0, 0>>
    ELSE LET g == GCD(Abs(n), Abs(d))
             s == IF d < 0 THEN -1 ELSE 1
         IN  <<(s * n) \div g, (s * d) \div g>>

Zero == R(0, 1)
One == R(1, 1)

RAdd(a, b) == R(a[1] * b[2] + b[1] * a[2], a[2] * b[2])
RSub(a, b) == R(a[1] * b[2] - b[1] * a[2], a[2] * b[2])
RMul(a, b) == R(a[1] * b[1], a[2] * b[2])
RDiv(a, b) == IF a[2] = 0 THEN <<0, 0>> ELSE R(a[1] * b[2], a[2] * b[1])
RLt(a, b) == a[2] # 0 /\ b[2] # 0 /\ a[1] * b[2] < b[1] * a[2]
RLe(a, b) == a[2] # 0 /\ b[2] # 0 /\ a[1] * b[2] <= b[1] * a[2]
RGt(a, b) == RLt(b, a)
RGe(a, b) == RLe(b, a)

(***************************************************************************)
(* BuiltinAnimationBlenders                                                *)
(***************************************************************************)
\* A variant of OVERRIDE with source and destination exchanged.
OVERRIDE_Swapped(source, destination, initial, weight) ==
    RAdd(RMul(source, weight), RMul(destination, RSub(One, weight)))

OVERRIDE(source, destination, initial, weight) ==
    RAdd(RMul(destination, weight), RMul(source, RSub(One, weight)))

ADD(source, destination, initial, weight) ==
    RAdd(source, RMul(RSub(destination, initial), weight))

\* The third parameter of MULTIPLY is named weight in the source: called
\* with four arguments, it reads the initial value where it says weight.
MULTIPLY(source, destination, weight, unused) ==
    RMul(source, RAdd(One, RMul(RSub(destination, One), weight)))

Blend(blend, source, destination, initial, weight) ==
    CASE blend = "OVERRIDE" -> OVERRIDE(source, destination, initial, weight)
      [] blend = "ADD" -> ADD(source, destination, initial, weight)
      [] blend = "MULTIPLY" -> MULTIPLY(source, destination, initial, weight)

(***************************************************************************)
(* BuiltinCrossfadeWeighters                                               *)
(***************************************************************************)
LINEAR_WEIGHT(time, duration) == RDiv(time, duration)

(***************************************************************************)
(* BuiltinAnimationSegmentEvaluators                                       *)
(* Points are records [time, value]; offset is a 0-based index.            *)
(***************************************************************************)
At(s, i) == s[i + 1]

AnimationPoint(time, value) == [time |-> time, value |-> value]

lerp(a, b, t) ==
    AnimationPoint(RAdd(a.time, RMul(RSub(b.time, a.time), t)),
                   RAdd(a.value, RMul(RSub(b.value, a.value), t)))

LINEAR(points, offset, time) ==
    LET p0 == At(points, offset + 0)
        p1 == At(points, offset + 1)
        t == RDiv(RSub(time, p0.time), RSub(p1.time, p0.time))
    IN  RAdd(p0.value, RMul(RSub(p1.value, p0.value), t))

\* The second and third level of BEZIER: p012, p123 and the result.
BezierJoin(p01, p12, p23, t) == lerp(lerp(p01, p12, t), lerp(p12, p23, t), t).value

\* The first level of BEZIER: p01, p12 and p23.
BezierAt(points, offset, t) ==
    BezierJoin(lerp(At(points, offset + 0), At(points, offset + 1), t),
               lerp(At(points, offset + 1), At(points, offset + 2), t),
               lerp(At(points, offset + 2), At(points, offset + 3), t),
               t)

BEZIER(points, offset, time) ==
    BezierAt(points, offset,
             RDiv(RSub(time, At(points, offset + 0).time),
                  RSub(At(points, offset + 3).time, At(points, offset).time)))

STEPPED(points, offset, time) == At(points, offset + 0).value

INVERSE_STEPPED(points, offset, time) == At(points, offset + 1).value

SegmentEvaluate(evaluate, points, offset, time) ==
    CASE evaluate = "LINEAR" -> LINEAR(points, offset, time)
      [] evaluate = "BEZIER" -> BEZIER(points, offset, time)
      [] evaluate = "STEPPED" -> STEPPED(points, offset, time)
      [] evaluate = "INVERSE_STEPPED" -> INVERSE_STEPPED(points, offset, time)

AnimationSegment(offset, evaluate) == [offset |-> offset, evaluate |-> evaluate]

(***************************************************************************)
(* AnimationTrack                                                          *)
(***************************************************************************)
AnimationTrack(targetId, points, segments) ==
    [targetId |-> targetId, points |-> points, segments |-> segments]

\* A variant of FindSegment that stops only at a segment whose first point
\* is later than the time.
RECURSIVE FindSegment_After(_, _, _)
FindSegment_After(track, s, time) ==
    IF s < Len(track.segments) - 1
    THEN IF RGt(At(track.points, At(track.segments, s + 1).offset).time, time)
         THEN s
         ELSE FindSegment_After(track, s + 1, time)
    ELSE s

\* The for loop of AnimationTrack.evaluate: the segment index it stops at.
RECURSIVE FindSegment(_, _, _)
FindSegment(track, s, time) ==
    LET lastS == Len(track.segments) - 1
    IN  IF s < lastS
        THEN IF RGe(At(track.points, At(track.segments, s + 1).offset).time, time)
             THEN s
             ELSE FindSegment(track, s + 1, time)
        ELSE s

\* this.segments[s].evaluate(this.points, this.segments[s].offset, time)
EvaluateSegment(track, s, time) ==
    SegmentEvaluate(At(track.segments, s).evaluate, track.points,
                    At(track.segments, s).offset, time)

TrackEvaluate(track, time) == EvaluateSegment(track, FindSegment(track, 0, time), time)

(***************************************************************************)
(* Animation: the constructor                                              *)
(* A motion document is a record with the keys of the motion3.json file;   *)
(* an absent key is absent from the record's domain.  Segments is a        *)
(* sequence of numbers.                                                    *)
(***************************************************************************)
\* Reading past the end of a JavaScript array gives undefined, which
\* arithmetic turns into NaN.
Undefined == <<0, 0>>

JsAt(s, i) == IF i >= 0 /\ i < Len(s) THEN s[i + 1] ELSE Undefined

AnimationUserDataBody(time, value) == [time |-> time, value |-> value]

\* A variant of DeserializeSegments that takes a segment's offset to be the
\* number of points pushed so far.
RECURSIVE DeserializeSegments_Count(_, _, _, _)
DeserializeSegments_Count(s, t, points, segments) ==
    IF t < Len(s)
    THEN IF JsAt(s, t) = R(1, 1)
         THEN DeserializeSegments_Count(s, t + 4 + 3,
                  points \o <<AnimationPoint(JsAt(s, t + 1), JsAt(s, t + 2)),
                              AnimationPoint(JsAt(s, t + 3), JsAt(s, t + 4)),
                              AnimationPoint(JsAt(s, t + 5), JsAt(s, t + 6))>>,
                  Append(segments, AnimationSegment(Len(points), "BEZIER")))
         ELSE DeserializeSegments_Count(s, t + 3,
                  Append(points, AnimationPoint(JsAt(s, t + 1), JsAt(s, t + 2))),
                  Append(segments, AnimationSegment(Len(points), "LINEAR")))
    ELSE [points |-> points, segments |-> segments]

\* The loop "for (let t = 2; t < s.length; t += 3)" of the constructor.
RECURSIVE DeserializeSegments(_, _, _, _)
DeserializeSegments(s, t, points, segments) ==
    IF t < Len(s)
    THEN LET offset == Len(points) - 1
         IN  IF JsAt(s, t) = R(1, 1)
             THEN DeserializeSegments(s, t + 4 + 3,
                      points \o <<AnimationPoint(JsAt(s, t + 1), JsAt(s, t + 2)),
                                  AnimationPoint(JsAt(s, t + 3), JsAt(s, t + 4)),
                                  AnimationPoint(JsAt(s, t + 5), JsAt(s, t + 6))>>,
                      Append(segments, AnimationSegment(offset, "BEZIER")))
             ELSE DeserializeSegments(s, t + 3,
                      Append(points, AnimationPoint(JsAt(s, t + 1), JsAt(s, t + 2))),
                      Append(segments, AnimationSegment(offset,
                          IF JsAt(s, t) = R(2, 1) THEN "STEPPED"
                          ELSE IF JsAt(s, t) = R(3, 1) THEN "INVERSE_STEPPED"
                          ELSE "LINEAR")))
    ELSE [points |-> points, segments |-> segments]

DeserializeTrack(c) ==
    LET s == c.Segments
        r == DeserializeSegments(s, 2, <<AnimationPoint(JsAt(s, 0), JsAt(s, 1))>>, <<>>)
    IN  AnimationTrack(c.Id, r.points, r.segments)

RECURSIVE MapTracks(_)
MapTracks(curves) ==
    IF curves = <<>> THEN <<>>
    ELSE <<DeserializeTrack(Head(curves))>> \o MapTracks(Tail(curves))

RECURSIVE MapUserData(_)
MapUserData(us) ==
    IF us = <<>> THEN <<>>
    ELSE <<AnimationUserDataBody(Head(us).Time, Head(us).Value)>> \o MapUserData(Tail(us))

IsModelCurve(c) == c.Target = "Model"
IsParameterCurve(c) == c.Target = "Parameter"
IsPartOpacityCurve(c) == c.Target = "PartOpacity"

\* A variant of NewAnimation that builds what it can of a document
\* without Curves.
NewAnimation_Partial(motion3Json) ==
    IF "Meta" \notin DOMAIN motion3Json
    THEN [thrown |-> "TypeError"]
    ELSE [thrown |-> "none",
          duration |-> motion3Json.Meta.Duration,
          loop |-> motion3Json.Meta.Loop]

\* new Animation(motion3Json).  Reading a key of an absent Meta or calling
\* forEach of an absent Curves throws a TypeError out of the constructor.
NewAnimation(motion3Json) ==
    IF "Meta" \notin DOMAIN motion3Json \/ "Curves" \notin DOMAIN motion3Json
    THEN [thrown |-> "TypeError"]
    ELSE [thrown |-> "none",
          duration |-> motion3Json.Meta.Duration,
          fps |-> motion3Json.Meta.Fps,
          loop |-> motion3Json.Meta.Loop,
          userDataCount |-> motion3Json.Meta.UserDataCount,
          totalUserDataSize |-> motion3Json.Meta.TotalUserDataSize,
          userDataBodys |-> IF "UserData" \in DOMAIN motion3Json
                            THEN MapUserData(motion3Json.UserData)
                            ELSE <<>>,
          modelTracks |-> MapTracks(SelectSeq(motion3Json.Curves, IsModelCurve)),
          parameterTracks |-> MapTracks(SelectSeq(motion3Json.Curves, IsParameterCurve)),
          partOpacityTracks |-> MapTracks(SelectSeq(motion3Json.Curves, IsPartOpacityCurve))]

(***************************************************************************)
(* The target model (Live2DCubismCore.Model, external): the identifiers    *)
(* and default values are fixed; parameters.values and parts.opacities     *)
(* are state.                                                              *)
(***************************************************************************)
ParameterIds == <<"ParamA", "ParamB">>
DefaultValues == <<R(3, 1), R(0, 1)>>
PartIds == <<"PartA">>

\* Array.prototype.indexOf: the first 0-based index of id, or -1.
RECURSIVE IndexOfFrom(_, _, _)
IndexOfFrom(ids, id, i) ==
    IF i >= Len(ids) THEN -1
    ELSE IF At(ids, i) = id THEN i
    ELSE IndexOfFrom(ids, id, i + 1)

\* A variant of IndexOf that gives 0 for an id that is not in ids.
IndexOf_ZeroWhenMissing(ids, id) ==
    IF IndexOfFrom(ids, id, 0) >= 0 THEN IndexOfFrom(ids, id, 0) ELSE 0

IndexOf(ids, id) == IndexOfFrom(ids, id, 0)

SetAt(s, i, v) == [s EXCEPT ![i + 1] = v]

(***************************************************************************)
(* The motion documents of the model                                       *)
(***************************************************************************)
MotionA ==
    [Meta |-> [Duration |-> R(2, 1), Fps |-> R(30, 1), Loop |-> TRUE,
               UserDataCount |-> 2, TotalUserDataSize |-> 4],
     UserData |-> <<[Time |-> R(1, 10), Value |-> "e1"],
                    [Time |-> R(39, 20), Value |-> "e2"]>>,
     Curves |-> <<
        [Target |-> "Parameter", Id |-> "ParamA",
         Segments |-> <<R(0, 1), R(0, 1),
                        R(0, 1), R(1, 1), R(2, 1),
                        R(2, 1), R(2, 1), R(1, 1)>>],
        [Target |-> "Parameter", Id |-> "ParamX",
         Segments |-> <<R(0, 1), R(5, 1), R(0, 1), R(2, 1), R(7, 1)>>],
        [Target |-> "Model", Id |-> "Opacity",
         Segments |-> <<R(0, 1), R(1, 1), R(0, 1), R(2, 1), R(0, 1)>>],
        [Target |-> "PartOpacity", Id |-> "PartX",
         Segments |-> <<R(0, 1), R(1, 2), R(0, 1), R(2, 1), R(1, 4)>>],
        [Target |-> "PartOpacity", Id |-> "PartA",
         Segments |-> <<R(0, 1), R(1, 1),
                        R(1, 1), R(2, 3), R(1, 1), R(4, 3), R(0, 1), R(2, 1), R(0, 1)>>]>>]

MotionB ==
    [Meta |-> [Duration |-> R(1, 1), Fps |-> R(30, 1), Loop |-> FALSE,
               UserDataCount |-> 0, TotalUserDataSize |-> 0],
     Curves |-> <<
        [Target |-> "Parameter", Id |-> "ParamA",
         Segments |-> <<R(0, 1), R(1, 1), R(3, 1), R(1, 1), R(4, 1)>>],
        [Target |-> "Parameter", Id |-> "ParamB",
         Segments |-> <<R(0, 1), R(0, 1), R(0, 1), R(1, 1), R(2, 1)>>],
        [Target |-> "Parameter", Id |-> "ParamA",
         Segments |-> <<R(0, 1), R(2, 1), R(2, 1), R(1, 1), R(6, 1)>>]>>]

\* Motion documents as a page may load them: the two above, and documents
\* that lack Meta, Curves or both.
Motions ==
    [A |-> MotionA,
     B |-> MotionB,
     NoMeta |-> [Curves |-> MotionB.Curves],
     NoCurves |-> [Meta |-> MotionA.Meta, UserData |-> MotionA.UserData],
     Empty |-> [Version |-> 3]]

AnimationIds == {"A", "B"}

Animations == [A |-> NewAnimation(MotionA), B |-> NewAnimation(MotionB)]

(***************************************************************************)
(* Animation.evaluate                                                      *)
(* An evaluation state e holds what the call reads and writes: the target  *)
(* arrays, the caller's stackFlags, every animation's _lastTime and        *)
(* _callbackFunctions, and the record of what happened (writes, calls,     *)
(* evals), which the program does not have.                                *)
(***************************************************************************)
WeightGate == R(1, 100)

\* A variant of LoopTime that folds while time >= duration.
RECURSIVE LoopTime_Ge(_, _)
LoopTime_Ge(time, duration) ==
    IF RGe(time, duration) /\ RGt(duration, Zero)
    THEN LoopTime_Ge(RSub(time, duration), duration)
    ELSE time

\* A variant of LoopTime that subtracts the duration once (if, not while).
LoopTime_Once(time, duration) ==
    IF RGt(time, duration) THEN RSub(time, duration) ELSE time

\* while (time > this.duration) time -= this.duration;
\* With duration <= 0 and time > duration the loop of the source never ends;
\* no motion document of the model has such a duration.
RECURSIVE LoopTime(_, _)
LoopTime(time, duration) ==
    IF RGt(time, duration) /\ RGt(duration, Zero)
    THEN LoopTime(RSub(time, duration), duration)
    ELSE time

\* A variant of isEventTriggered whose window includes timeForward.
isEventTriggered_Inclusive(timeEvaluate, timeForward, timeBack, duration) ==
    IF RGt(timeForward, timeBack)
    THEN RGt(timeEvaluate, timeBack) /\ RLe(timeEvaluate, timeForward)
    ELSE \/ RGt(timeEvaluate, Zero) /\ RLe(timeEvaluate, timeForward)
         \/ RGt(timeEvaluate, timeBack) /\ RLt(timeEvaluate, duration)

\* A variant of isEventTriggered without the branch of a wrapped time.
isEventTriggered_NoWrap(timeEvaluate, timeForward, timeBack, duration) ==
    RGt(timeEvaluate, timeBack) /\ RLt(timeEvaluate, timeForward)

isEventTriggered(timeEvaluate, timeForward, timeBack, duration) ==
    IF RGt(timeForward, timeBack)
    THEN RGt(timeEvaluate, timeBack) /\ RLt(timeEvaluate, timeForward)
    ELSE \/ RGt(timeEvaluate, Zero) /\ RLt(timeEvaluate, timeForward)
         \/ RGt(timeEvaluate, timeBack) /\ RLt(timeEvaluate, duration)

Write(op, kind, idx, source, value) ==
    [source |-> source, value |-> value, op |-> op, kind |-> kind, idx |-> idx]

\* A variant of ResetParameter that forgets to set the flag.
ResetParameter_NoFlag(p, e) ==
    IF At(e.flags[1], p) # TRUE
    THEN [e EXCEPT !.values = SetAt(e.values, p, At(DefaultValues, p)),
                   !.writes = Append(e.writes,
                       Write("reset", "param", p, At(e.values, p), At(DefaultValues, p)))]
    ELSE e

\* A variant of ResetParameter that sets the flag and keeps the value.
ResetParameter_FlagOnly(p, e) ==
    IF At(e.flags[1], p) # TRUE
    THEN [e EXCEPT !.flags = <<SetAt(e.flags[1], p, TRUE), e.flags[2]>>]
    ELSE e

\* if (stackFlags[0][p] != true) { values[p] = defaultValues[p]; stackFlags[0][p] = true; }
ResetParameter(p, e) ==
    IF At(e.flags[1], p) # TRUE
    THEN [e EXCEPT !.values = SetAt(e.values, p, At(DefaultValues, p)),
                   !.flags = <<SetAt(e.flags[1], p, TRUE), e.flags[2]>>,
                   !.writes = Append(e.writes,
                       Write("reset", "param", p, At(e.values, p), At(DefaultValues, p)))]
    ELSE e

\* if (stackFlags[1][p] != true) { opacities[p] = 1; stackFlags[1][p] = true; }
ResetPartOpacity(p, e) ==
    IF At(e.flags[2], p) # TRUE
    THEN [e EXCEPT !.opacities = SetAt(e.opacities, p, One),
                   !.flags = <<e.flags[1], SetAt(e.flags[2], p, TRUE)>>,
                   !.writes = Append(e.writes,
                       Write("reset", "part", p, At(e.opacities, p), One))]
    ELSE e

\* The assignment of a blended value to values[p].
WriteParameter(p, value, e) ==
    [e EXCEPT !.values = SetAt(e.values, p, value),
              !.writes = Append(e.writes, Write("blend", "param", p, At(e.values, p), value))]

\* The assignment of a blended value to opacities[p].
WritePartOpacity(p, value, e) ==
    [e EXCEPT !.opacities = SetAt(e.opacities, p, value),
              !.writes = Append(e.writes, Write("blend", "part", p, At(e.opacities, p), value))]

\* values[p] = blend(values[p], t.evaluate(time), t.evaluate(0), weight)
BlendParameter(t, p, time, weight, blend, e) ==
    WriteParameter(p, Blend(blend, At(e.values, p), TrackEvaluate(t, time),
                            TrackEvaluate(t, Zero), weight), e)

\* opacities[p] = blend(opacities[p], t.evaluate(time), t.evaluate(0), weight)
BlendPartOpacity(t, p, time, weight, blend, e) ==
    WritePartOpacity(p, Blend(blend, At(e.opacities, p), TrackEvaluate(t, time),
                              TrackEvaluate(t, Zero), weight), e)

\* One iteration of parameterTracks.forEach.
EvaluateParameterTrack(t, time, weight, blend, e) ==
    LET p == IndexOf(ParameterIds, t.targetId)
    IN  IF p >= 0
        THEN BlendParameter(t, p, time, weight, blend, ResetParameter(p, e))
        ELSE e

\* One iteration of partOpacityTracks.forEach.
EvaluatePartOpacityTrack(t, time, weight, blend, e) ==
    LET p == IndexOf(PartIds, t.targetId)
    IN  IF p >= 0
        THEN BlendPartOpacity(t, p, time, weight, blend, ResetPartOpacity(p, e))
        ELSE e

RECURSIVE EvaluateParameterTracks(_, _, _, _, _)
EvaluateParameterTracks(tracks, time, weight, blend, e) ==
    IF tracks = <<>> THEN e
    ELSE EvaluateParameterTracks(Tail(tracks), time, weight, blend,
             EvaluateParameterTrack(Head(tracks), time, weight, blend, e))

RECURSIVE EvaluatePartOpacityTracks(_, _, _, _, _)
EvaluatePartOpacityTracks(tracks, time, weight, blend, e) ==
    IF tracks = <<>> THEN e
    ELSE EvaluatePartOpacityTracks(Tail(tracks), time, weight, blend,
             EvaluatePartOpacityTrack(Head(tracks), time, weight, blend, e))

\* callAnimationCallback(value): every registered callback, in order.
RECURSIVE callAnimationCallback(_, _, _)
callAnimationCallback(a, cbs, value) ==
    IF cbs = <<>> THEN <<>>
    ELSE <<[anim |-> a, cb |-> Head(cbs), value |-> value]>>
         \o callAnimationCallback(a, Tail(cbs), value)

\* The loop over userDataBodys ("Check user data event").
RECURSIVE CheckUserData(_, _, _, _, _, _)
CheckUserData(a, uds, time, lastTime, duration, cbs) ==
    IF uds = <<>> THEN <<>>
    ELSE (IF isEventTriggered(Head(uds).time, time, lastTime, duration)
          THEN callAnimationCallback(a, cbs, Head(uds).value)
          ELSE <<>>)
         \o CheckUserData(a, Tail(uds), time, lastTime, duration, cbs)

\* The record of one call: its arguments, whether it returned early, the
\* time t it evaluated at and the _lastTime it found.
Eval(layer, a, time, weight, gated, t, last) ==
    [weight |-> weight, time |-> time, t |-> t, anim |-> a, layer |-> layer, gated |-> gated,
     last |-> last]

\* A variant of IsMinimal with a strict comparison.
IsMinimal_Strict(weight) == RLt(weight, WeightGate)

\* A variant of IsMinimal without the early return.
IsMinimal_Never(weight) == FALSE

\* "Return early if influence is minimal."
IsMinimal(weight) == RLe(weight, WeightGate)

\* "Loop animation time if requested."
FoldTime(anim, time) == IF anim.loop THEN LoopTime(time, anim.duration) ELSE time

\* "Check user data event." and this._lastTime = time, on the state e2 the
\* tracks left; e is the state the call started from.
CheckEvents(layer, a, anim, time, t, weight, e, e2) ==
    [e2 EXCEPT !.calls = e2.calls
                   \o CheckUserData(a, anim.userDataBodys, t, e.lastTime[a], anim.duration,
                                    e.callbacks[a]),
               !.lastTime = [e.lastTime EXCEPT ![a] = t],
               !.evals = Append(e.evals, Eval(layer, a, time, weight, FALSE, t, e.lastTime[a]))]

\* "Evaluate tracks and apply results." at the folded time t.  groups is
\* null in every call of the repository, so the model tracks change nothing.
EvaluateTracks(layer, a, anim, time, t, weight, blend, e) ==
    CheckEvents(layer, a, anim, time, t, weight, e,
        EvaluatePartOpacityTracks(anim.partOpacityTracks, t, weight, blend,
            EvaluateParameterTracks(anim.parameterTracks, t, weight, blend, e)))

\* Animation.evaluate(time, weight, blend, target, stackFlags) of animation
\* a, called by layer (0: called directly).
AnimationEvaluate(layer, a, time, weight, blend, e) ==
    IF IsMinimal(weight)
    THEN [e EXCEPT !.evals = Append(e.evals, Eval(layer, a, time, weight, TRUE, time, e.lastTime[a]))]
    ELSE EvaluateTracks(layer, a, Animations[a], time, FoldTime(Animations[a], time),
                        weight, blend, e)

(***************************************************************************)
(* AnimationLayer                                                          *)
(***************************************************************************)
NewAnimationLayer(blend, weight) ==
    [animation |-> "none", time |-> Zero,
     goalAnimation |-> "none", goalTime |-> Zero,
     fadeTime |-> Zero, fadeDuration |-> Zero,
     play |-> FALSE, blend |-> blend, weight |-> weight]

\* A variant of play whose crossfade branch also starts the layer.
play_StartsPlaying(l, animation, fadeDuration) ==
    IF l.animation # "none" /\ RGt(fadeDuration, Zero)
    THEN [l EXCEPT !.goalAnimation = animation,
                   !.goalTime = Zero,
                   !.fadeTime = Zero,
                   !.fadeDuration = fadeDuration,
                   !.play = TRUE]
    ELSE [l EXCEPT !.animation = animation,
                   !.time = Zero,
                   !.play = TRUE]

\* A variant of play whose crossfade branch leaves goalTime.
play_KeepsGoalTime(l, animation, fadeDuration) ==
    IF l.animation # "none" /\ RGt(fadeDuration, Zero)
    THEN [l EXCEPT !.goalAnimation = animation,
                   !.fadeTime = Zero,
                   !.fadeDuration = fadeDuration]
    ELSE [l EXCEPT !.animation = animation,
                   !.time = Zero,
                   !.play = TRUE]

play(l, animation, fadeDuration) ==
    IF l.animation # "none" /\ RGt(fadeDuration, Zero)
    THEN [l EXCEPT !.goalAnimation = animation,
                   !.goalTime = Zero,
                   !.fadeTime = Zero,
                   !.fadeDuration = fadeDuration]
    ELSE [l EXCEPT !.animation = animation,
                   !.time = Zero,
                   !.play = TRUE]

resume(l) == [l EXCEPT !.play = TRUE]

pause(l) == [l EXCEPT !.play = FALSE]

\* A variant of stop that resets all three clocks.
stop_ResetsClocks(l) ==
    [l EXCEPT !.play = FALSE, !.time = Zero, !.goalTime = Zero, !.fadeTime = Zero]

\* A variant of stop that also forgets the current animation.
stop_ClearsAnimation(l) == [l EXCEPT !.play = FALSE, !.time = Zero, !.animation = "none"]

stop(l) == [l EXCEPT !.play = FALSE, !.time = Zero]

\* A variant of _update without the return of a layer that is not playing.
_update_Always(l, deltaTime) ==
    [l EXCEPT !.time = RAdd(l.time, deltaTime),
              !.goalTime = RAdd(l.goalTime, deltaTime),
              !.fadeTime = RAdd(l.fadeTime, deltaTime)]

_update(l, deltaTime) ==
    IF ~l.play THEN l
    ELSE [l EXCEPT !.time = RAdd(l.time, deltaTime),
                   !.goalTime = RAdd(l.goalTime, deltaTime),
                   !.fadeTime = RAdd(l.fadeTime, deltaTime)]

Observation(i, l) ==
    [time |-> l.time, layer |-> i, animation |-> l.animation, goalAnimation |-> l.goalAnimation,
     goalTime |-> l.goalTime, fadeTime |-> l.fadeTime, fadeDuration |-> l.fadeDuration]

\* A variant of FinalizeCrossfade that finalizes at fadeTime = fadeDuration.
FinalizeCrossfade_AtEnd(l) ==
    IF RGe(l.fadeTime, l.fadeDuration)
    THEN [l EXCEPT !.animation = l.goalAnimation,
                   !.time = l.goalTime,
                   !.goalAnimation = "none"]
    ELSE l

\* "Finalize crossfade."
FinalizeCrossfade(l) ==
    IF RGt(l.fadeTime, l.fadeDuration)
    THEN [l EXCEPT !.animation = l.goalAnimation,
                   !.time = l.goalTime,
                   !.goalAnimation = "none"]
    ELSE l

\* A variant of ClampWeight that leaves the weight as it is.
ClampWeight_None(w) == w

\* "Clamp weight."
ClampWeight(w) == IF RLt(w, One) THEN w ELSE One

\* The weight of the current animation: faded while a goal animation is set.
AnimationWeight(l) ==
    IF l.goalAnimation # "none"
    THEN RMul(ClampWeight(l.weight), LINEAR_WEIGHT(l.fadeTime, l.fadeDuration))
    ELSE ClampWeight(l.weight)

\* The weight of the goal animation.
GoalWeight(l) ==
    RSub(One, RMul(ClampWeight(l.weight), LINEAR_WEIGHT(l.fadeTime, l.fadeDuration)))

\* "Evaluate goal animation.", on the state e1 the current animation left.
EvaluateGoal(i, l, e1) ==
    IF l.goalAnimation # "none"
    THEN [layer |-> FinalizeCrossfade(l),
          e |-> AnimationEvaluate(i, l.goalAnimation, l.goalTime, GoalWeight(l), l.blend, e1)]
    ELSE [layer |-> l, e |-> e1]

\* The state with the record of what an _evaluate call finds.
Observe(i, l, e) == [e EXCEPT !.observed = Append(e.observed, Observation(i, l))]

\* A variant of _evaluate that evaluates animation A on a layer that has
\* no current animation.
_evaluate_NoIdleCheck(i, l, e) ==
    EvaluateGoal(i, l,
        AnimationEvaluate(i, IF l.animation = "none" THEN "A" ELSE l.animation, l.time,
                          AnimationWeight(l), l.blend, Observe(i, l, e)))

\* AnimationLayer._evaluate(target, stackFlags) of the i-th layer: the
\* layer and the evaluation state it leaves.
_evaluate(i, l, e) ==
    IF l.animation = "none"
    THEN [layer |-> l, e |-> Observe(i, l, e)]
    ELSE EvaluateGoal(i, l,
             AnimationEvaluate(i, l.animation, l.time, AnimationWeight(l), l.blend,
                               Observe(i, l, e)))

(***************************************************************************)
(* Animator                                                                *)
(***************************************************************************)
TickEpsilon == R(1, 1000)

\* A variant of ScaleDeltaTime that scales by the magnitude of timeScale.
ScaleDeltaTime_Abs(deltaTime, scale) ==
    RMul(deltaTime, IF RGt(scale, Zero) THEN scale ELSE RSub(Zero, scale))

\* deltaTime *= (timeScale > 0) ? timeScale : 0
ScaleDeltaTime(deltaTime, scale) ==
    RMul(deltaTime, IF RGt(scale, Zero) THEN scale ELSE Zero)

\* A variant of UpdateLayers that advances the first layer only.
UpdateLayers_FirstOnly(ls, deltaTime) ==
    IF RGt(deltaTime, TickEpsilon)
    THEN [i \in DOMAIN ls |-> IF i = 1 THEN _update(ls[i], deltaTime) ELSE ls[i]]
    ELSE ls

\* "Tick layers."
UpdateLayers(ls, deltaTime) ==
    IF RGt(deltaTime, TickEpsilon)
    THEN [i \in DOMAIN ls |-> _update(ls[i], deltaTime)]
    ELSE ls

FreshStackFlags ==
    <<[i \in 1..Len(ParameterIds) |-> FALSE], [i \in 1..Len(PartIds) |-> FALSE]>>

\* "Evaluate layers.": _layers.forEach, in insertion order, from layer i on.
RECURSIVE EvaluateLayers(_, _, _)
RECURSIVE EvaluateLayersAfter(_, _, _)
EvaluateLayers(ls, i, e) ==
    IF i > Len(ls) THEN [layers |-> ls, e |-> e]
    ELSE EvaluateLayersAfter(ls, i, _evaluate(i, ls[i], e))

\* The layers after the i-th, whose _evaluate left r.
EvaluateLayersAfter(ls, i, r) ==
    EvaluateLayers([ls EXCEPT ![i] = r.layer], i + 1, r.e)

(***************************************************************************)
(* State                                                                   *)
(***************************************************************************)
VARIABLES
    layers,       \* Animator._layers, in insertion order
    timeScale,    \* Animator._timeScale
    values,       \* target.parameters.values
    opacities,    \* target.parts.opacities
    stackFlags,   \* the stackFlags array pair of the last evaluation
    lastTime,     \* Animation._lastTime of every animation
    callbacks,    \* Animation._callbackFunctions of every animation
    passCalls,    \* direct calls of Animation.evaluate made with stackFlags
    writes,       \* history: the writes to the target of the last operation
    calls,        \* history: the callback invocations of the last operation
    evals,        \* history: the Animation.evaluate calls of the last operation
    observed,     \* history: what each _evaluate call of the last tick found
    lastOp,       \* history: the last operation and its arguments
    applied       \* history: the last call of a function that has no state,
                  \* as <<function, arguments, result>>; of an evaluate call
                  \* taken step by step, the result is <<position, time>>

vars == <<layers, timeScale, values, opacities, stackFlags, lastTime, callbacks,
          passCalls, writes, calls, evals, observed, lastOp, applied>>

\* Bounds: the clocks up to which a tick advances a layer (in half seconds),
\* the direct evaluate calls made with one stackFlags pair, and the
\* callbacks registered with one animation.
MaxHalfSeconds == 2
MaxStackHalfSeconds == 0
MaxPassCalls == 1
MaxCallbacks == 2

\* Input sets.
DeltaTimes == {Zero, R(1, 2000), R(1, 2)}
TimeScales == {R(-1, 1), Zero, One, R(2, 1)}
FadeDurations == {Zero, One}
EvalTimes == {Zero, R(1, 10), One, R(19, 10), R(2, 1), R(3, 1), R(4, 1), R(5, 1)}
EvalWeights == {R(1, 100), One}
Blenders == {"OVERRIDE", "MULTIPLY"}
CallbackIds == {"f"}
EvalAnimations == {"A"}

Op(op, layer, anim, num, weight, blend) ==
    [weight |-> weight, blend |-> blend, op |-> op, anim |-> anim, layer |-> layer, num |-> num]

\* The evaluation state a call starts from.
EvalState(flags) ==
    [values |-> values, opacities |-> opacities, flags |-> flags,
     lastTime |-> lastTime, callbacks |-> callbacks,
     writes |-> <<>>, calls |-> <<>>, evals |-> <<>>, observed |-> <<>>]

\* The target as loaded, the animations as constructed, and the animator
\* that AnimatorBuilder.build makes of the layers added to it.
InitWith(settings, scales) ==
    /\ layers = [i \in DOMAIN settings |->
                    NewAnimationLayer(settings[i].blend, settings[i].weight)]
    /\ timeScale \in scales
    /\ values = DefaultValues
    /\ opacities = [i \in 1..Len(PartIds) |-> One]
    /\ stackFlags = FreshStackFlags
    /\ lastTime = [a \in AnimationIds |-> Zero]
    /\ callbacks = [a \in AnimationIds |-> <<>>]
    /\ passCalls = 0
    /\ writes = <<>>
    /\ calls = <<>>
    /\ evals = <<>>
    /\ observed = <<>>
    /\ lastOp = Op("init", 0, "none", Zero, Zero, "none")
    /\ applied = <<"none", <<>>, <<>>>>

NoHistory ==
    /\ writes' = <<>>
    /\ calls' = <<>>
    /\ evals' = <<>>
    /\ observed' = <<>>

(***************************************************************************)
(* The operations of an Animator and its layers                            *)
(***************************************************************************)
LayerOp(i, l, op) ==
    /\ layers' = [layers EXCEPT ![i] = l]
    /\ lastOp' = op
    /\ NoHistory
    /\ UNCHANGED <<timeScale, values, opacities, stackFlags, lastTime, callbacks, passCalls, applied>>

Play(i, a, fadeDuration) ==
    LayerOp(i, play(layers[i], a, fadeDuration), Op("play", i, a, fadeDuration, Zero, "none"))

Resume(i) == LayerOp(i, resume(layers[i]), Op("resume", i, "none", Zero, Zero, "none"))

Pause(i) == LayerOp(i, pause(layers[i]), Op("pause", i, "none", Zero, Zero, "none"))

Stop(i) == LayerOp(i, stop(layers[i]), Op("stop", i, "none", Zero, Zero, "none"))

\* No clock that the tick advances is beyond the bound.
WithinMaxTime(deltaTime, halfSeconds) ==
    \/ ~RGt(ScaleDeltaTime(deltaTime, timeScale), TickEpsilon)
    \/ \A i \in DOMAIN layers :
          layers[i].play =>
              /\ RLe(layers[i].time, R(halfSeconds, 2))
              /\ RLe(layers[i].goalTime, R(halfSeconds, 2))

\* Animator.updateAndEvaluate(deltaTime)
updateAndEvaluate(deltaTime) ==
    \E r \in {EvaluateLayers(UpdateLayers(layers, ScaleDeltaTime(deltaTime, timeScale)),
                             1, EvalState(FreshStackFlags))} :
        /\ layers' = r.layers
        /\ values' = r.e.values
        /\ opacities' = r.e.opacities
        /\ stackFlags' = r.e.flags
        /\ lastTime' = r.e.lastTime
        /\ writes' = r.e.writes
        /\ calls' = r.e.calls
        /\ evals' = r.e.evals
        /\ observed' = r.e.observed
        /\ lastOp' = Op("tick", 0, "none", deltaTime, Zero, "none")
        /\ UNCHANGED <<timeScale, callbacks, passCalls, applied>>

Tick(deltaTime) == WithinMaxTime(deltaTime, MaxHalfSeconds) /\ updateAndEvaluate(deltaTime)

StackTick(deltaTime) == WithinMaxTime(deltaTime, MaxStackHalfSeconds) /\ updateAndEvaluate(deltaTime)

(***************************************************************************)
(* Direct use of an Animation: evaluate with stackFlags of the caller's,   *)
(* and the callback registry.                                              *)
(***************************************************************************)
\* The caller allocates a new stackFlags pair.
NewStackFlags ==
    /\ stackFlags' = FreshStackFlags
    /\ passCalls' = 0
    /\ lastOp' = Op("flags", 0, "none", Zero, Zero, "none")
    /\ NoHistory
    /\ UNCHANGED <<layers, timeScale, values, opacities, lastTime, callbacks, applied>>

\* animation.evaluate(time, weight, blend, target, stackFlags)
Evaluate(a, time, weight, blend) ==
    /\ passCalls < MaxPassCalls
    /\ \E e \in {AnimationEvaluate(0, a, time, weight, blend, EvalState(stackFlags))} :
        /\ values' = e.values
        /\ opacities' = e.opacities
        /\ stackFlags' = e.flags
        /\ lastTime' = e.lastTime
        /\ writes' = e.writes
        /\ calls' = e.calls
        /\ evals' = e.evals
        /\ observed' = e.observed
    /\ passCalls' = passCalls + 1
    /\ lastOp' = Op("evaluate", 0, a, time, weight, blend)
    /\ UNCHANGED <<layers, timeScale, callbacks, applied>>

addAnimationCallback(cbs, callbackFunc) == Append(cbs, callbackFunc)

\* A variant of removeAnimationCallback that removes every registration of
\* callbackFunc.
removeAnimationCallback_All(cbs, callbackFunc) ==
    SelectSeq(cbs, LAMBDA cb : cb # callbackFunc)

\* Removes the first registration of callbackFunc.
RECURSIVE removeAnimationCallback(_, _)
removeAnimationCallback(cbs, callbackFunc) ==
    IF cbs = <<>> THEN <<>>
    ELSE IF Head(cbs) = callbackFunc THEN Tail(cbs)
    ELSE <<Head(cbs)>> \o removeAnimationCallback(Tail(cbs), callbackFunc)

clearAnimationCallback(cbs) == <<>>

CallbackOp(a, cbs, op) ==
    /\ callbacks' = [callbacks EXCEPT ![a] = cbs]
    /\ lastOp' = op
    /\ NoHistory
    /\ UNCHANGED <<layers, timeScale, values, opacities, stackFlags, lastTime, passCalls, applied>>

AddAnimationCallback(a, cb) ==
    /\ Len(callbacks[a]) < MaxCallbacks
    /\ CallbackOp(a, addAnimationCallback(callbacks[a], cb), Op("add", 0, a, Zero, Zero, cb))

RemoveAnimationCallback(a, cb) ==
    CallbackOp(a, removeAnimationCallback(callbacks[a], cb), Op("remove", 0, a, Zero, Zero, cb))

ClearAnimationCallback(a) ==
    CallbackOp(a, clearAnimationCallback(callbacks[a]), Op("clear", 0, a, Zero, Zero, "none"))

(***************************************************************************)
(* Specifications                                                          *)
(***************************************************************************)
\* An animator of one layer, every operation of the layer.
LayerSettings == <<[blend |-> "OVERRIDE", weight |-> R(2, 1)]>>

Init == InitWith(LayerSettings, TimeScales)

Next ==
    \/ \E i \in DOMAIN layers, a \in AnimationIds, f \in FadeDurations : Play(i, a, f)
    \/ \E i \in DOMAIN layers : Resume(i)
    \/ \E i \in DOMAIN layers : Pause(i)
    \/ \E i \in DOMAIN layers : Stop(i)
    \/ \E dt \in DeltaTimes : Tick(dt)

Spec == Init /\ [][Next]_vars

\* An animator of two stacked layers, played and ticked.
StackSettings ==
    <<[blend |-> "OVERRIDE", weight |-> One], [blend |-> "ADD", weight |-> R(1, 2)]>>

InitStack == InitWith(StackSettings, {R(-1, 1), One})

\* The first layer plays and crossfades, the second layer plays.
StackPlays ==
    {<<1, a, f>> : a \in AnimationIds, f \in FadeDurations} \cup {<<2, a, Zero>> : a \in AnimationIds}

StackDeltaTimes == {R(1, 2000), R(1, 2)}

NextStack ==
    \/ \E p \in StackPlays : Play(p[1], p[2], p[3])
    \/ \E dt \in StackDeltaTimes : StackTick(dt)

SpecStack == InitStack /\ [][NextStack]_vars

\* One animation used directly.
InitEval == InitWith(<<>>, {One})

NextEval ==
    \/ NewStackFlags
    \/ \E a \in EvalAnimations, t \in EvalTimes, w \in EvalWeights, b \in Blenders : Evaluate(a, t, w, b)
    \/ \E a \in EvalAnimations, cb \in CallbackIds : AddAnimationCallback(a, cb)
    \/ \E a \in EvalAnimations, cb \in CallbackIds : RemoveAnimationCallback(a, cb)
    \/ \E a \in EvalAnimations : ClearAnimationCallback(a)

SpecEval == InitEval /\ [][NextEval]_vars

\* An animator of one layer that is ticked every frame.  A crossfade that
\* has begun may always be ticked to its end; play is called while the
\* layer's time is within the bound.
FadeTimeScales == {R(-1, 1), Zero, One}
FrameDeltaTime == R(1, 2)
FadeDeltaTimes == {R(1, 2000), FrameDeltaTime}
MaxFadeHalfSeconds == 1

InitFade == InitWith(LayerSettings, FadeTimeScales)

FadePlay(i, a, fadeDuration) ==
    /\ RLe(layers[i].time, R(MaxFadeHalfSeconds, 2))
    /\ Play(i, a, fadeDuration)

FadeTick(deltaTime) ==
    /\ \/ \E i \in DOMAIN layers : layers[i].goalAnimation # "none"
       \/ WithinMaxTime(deltaTime, MaxFadeHalfSeconds)
    /\ updateAndEvaluate(deltaTime)

NextFade ==
    \/ \E i \in DOMAIN layers, a \in AnimationIds, f \in FadeDurations : FadePlay(i, a, f)
    \/ \E i \in DOMAIN layers : Resume(i)
    \/ \E i \in DOMAIN layers : Pause(i)
    \/ \E i \in DOMAIN layers : Stop(i)
    \/ \E dt \in FadeDeltaTimes : FadeTick(dt)

\* What _evaluate leaves of a layer: the crossfade finalized, if one is
\* over.
LayerAfterEvaluate(l) ==
    IF l.animation # "none" /\ l.goalAnimation # "none" THEN FinalizeCrossfade(l) ELSE l

\* The step of a frame tick of a crossfading layer, by the operation it
\* records and the layers it leaves.
FrameTick ==
    /\ \E i \in DOMAIN layers : layers[i].goalAnimation # "none" /\ layers[i].play
    /\ RGt(timeScale, Zero)
    /\ lastOp' = Op("tick", 0, "none", FrameDeltaTime, Zero, "none")
    /\ \E deltaTime \in {ScaleDeltaTime(FrameDeltaTime, timeScale)} :
       \E ls \in {SubSeq(UpdateLayers(layers, deltaTime), 1, Len(layers))} :
          layers' = [i \in DOMAIN ls |-> LayerAfterEvaluate(ls[i])]

\* The ticker calls updateAndEvaluate with the time of a frame again and
\* again.
SpecFade == InitFade /\ [][NextFade]_vars /\ WF_<<lastOp, layers>>(FrameTick)

\* One animation with two callback functions registered, removed and
\* called.
TwoCallbackIds == {"f", "g"}
CallbackEvalTimes == {Zero, One, R(2, 1), R(3, 1)}

NextCallbacks ==
    \/ NewStackFlags
    \/ \E a \in EvalAnimations, t \in CallbackEvalTimes : Evaluate(a, t, One, "OVERRIDE")
    \/ \E a \in EvalAnimations, cb \in TwoCallbackIds : AddAnimationCallback(a, cb)
    \/ \E a \in EvalAnimations, cb \in TwoCallbackIds : RemoveAnimationCallback(a, cb)
    \/ \E a \in EvalAnimations : ClearAnimationCallback(a)

SpecCallbacks == InitEval /\ [][NextCallbacks]_vars

(***************************************************************************)
(* The functions that have no state, called with arguments of small sets.  *)
(***************************************************************************)
\* What a call of such a function leaves alone.
Stateless(call) ==
    /\ applied' = call
    /\ UNCHANGED <<layers, timeScale, values, opacities, stackFlags, lastTime, callbacks,
                   passCalls, writes, calls, evals, observed, lastOp>>

BlendNumbers == {R(-1, 1), Zero, R(1, 2), R(3, 1)}
BlendWeights == {Zero, R(1, 2), One}
AllBlenders == {"OVERRIDE", "ADD", "MULTIPLY"}

\* blend(source, destination, initial, weight), as Animation.evaluate calls it.
ApplyBlender(blend, source, destination, initial, weight) ==
    Stateless(<<"blend", <<blend, source, destination, initial, weight>>,
                Blend(blend, source, destination, initial, weight)>>)

\* new Animation(motion3Json): what it throws and the fields of the object
\* it gives.
Construct(m) ==
    Stateless(<<"new Animation", <<m>>,
                <<NewAnimation(Motions[m]).thrown, DOMAIN NewAnimation(Motions[m]) \ {"thrown"}>>>>)

\* JavaScript values of a page's configuration: undefined, a string, a
\* number, or an object given by its own enumerable properties.
UndefinedValue == <<"undefined">>

Str(s) == <<"string", s>>

Num(n) == <<"number", n>>

Obj(properties) == <<"object", properties>>

\* !!value
Truthy(value) ==
    CASE value[1] = "undefined" -> FALSE
      [] value[1] = "string" -> value[2] # ""
      [] value[1] = "number" -> value[2] # 0
      [] OTHER -> TRUE

\* object[key] of an object.
Property(object, key) ==
    IF key \in DOMAIN object[2] THEN object[2][key] ELSE UndefinedValue

\* Object.values(value) of a truthy value: the properties of an object, the
\* one-character strings of a string, nothing for a number.
ObjectValues(value) ==
    CASE value[1] = "object" -> {value[2][k] : k \in DOMAIN value[2]}
      [] value[1] = "string" -> {Str("c")}
      [] OTHER -> {}

\* isValidLive2DConfigType, of window.Live2DConfig.  Destructuring undefined
\* throws, and the catch returns false.
isValidLive2DConfigType(live2DConfig) ==
    IF live2DConfig[1] # "object"
    THEN FALSE
    ELSE /\ Truthy(Property(live2DConfig, "moc"))
         /\ Truthy(Property(live2DConfig, "texture"))
         /\ Truthy(Property(live2DConfig, "motions"))
         /\ \A value \in ObjectValues(Property(live2DConfig, "motions")) : value[1] = "string"

\* setup, up to its first step after the validation, on a page that has the
\* #l2d element.
setup(live2DConfig) ==
    IF ~isValidLive2DConfigType(live2DConfig)
    THEN "warn: missing valid Live2DConfig."
    ELSE "loadResources"

\* window.Live2DConfig as pages may define it: as the README shows, with a
\* motions object, with a motions entry that is no string, with an empty
\* moc path, without a texture, and not at all.
Live2DConfigs ==
    [README |-> Obj([moc |-> Str("model.moc3"), texture |-> Str("texture.png"),
                     motion |-> Str("idle.motion3.json")]),
     Motions |-> Obj([moc |-> Str("model.moc3"), texture |-> Str("texture.png"),
                      motions |-> Obj([idle |-> Str("idle.motion3.json"),
                                       wave |-> Str("wave.motion3.json")])]),
     NoMotions |-> Obj([moc |-> Str("model.moc3"), texture |-> Str("texture.png"),
                        motions |-> Obj(<<>>)]),
     NumberMotion |-> Obj([moc |-> Str("model.moc3"), texture |-> Str("texture.png"),
                           motions |-> Obj([idle |-> Num(1)])]),
     EmptyMoc |-> Obj([moc |-> Str(""), texture |-> Str("texture.png"),
                       motions |-> Obj([idle |-> Str("idle.motion3.json")])]),
     NoTexture |-> Obj([moc |-> Str("model.moc3"),
                        motions |-> Obj([idle |-> Str("idle.motion3.json")])]),
     Undefined |-> UndefinedValue]

\* setup() on a page whose window.Live2DConfig is Live2DConfigs[c].
Setup(c) ==
    Stateless(<<"setup", <<c>>, <<setup(Live2DConfigs[c])>>>>)

\* Event times, evaluation times (within and past the duration) and
\* durations isEventTriggered is applied to.
EventTimes == {Zero, R(1, 2), One, R(2, 1)}
WindowTimes == {Zero, R(1, 2), One, R(2, 1), R(3, 1)}
Durations == {One, R(2, 1)}

ApplyIsEventTriggered(timeEvaluate, timeForward, timeBack, duration) ==
    Stateless(<<"isEventTriggered", <<timeEvaluate, timeForward, timeBack, duration>>,
                isEventTriggered(timeEvaluate, timeForward, timeBack, duration)>>)

InitFn == InitWith(<<>>, {One})

NextFn ==
    \/ \E m \in DOMAIN Motions : Construct(m)
    \/ \E c \in DOMAIN Live2DConfigs : Setup(c)
    \/ \E e \in EventTimes, f \in WindowTimes, b \in WindowTimes, d \in Durations :
          ApplyIsEventTriggered(e, f, b, d)
    \/ \E b \in AllBlenders, s \in BlendNumbers, d \in BlendNumbers, i \in BlendNumbers,
          w \in BlendWeights : ApplyBlender(b, s, d, i, w)

SpecFn == InitFn /\ [][NextFn]_vars

\* Animation.evaluate taken step by step: the weight gate, every iteration
\* of the loop that folds the time, and the rest of the call.
LoopCallTimes == {Zero, R(1, 2), One, R(5, 2), R(3, 1), R(7, 1)}
LoopCallDurations == {R(-1, 1), Zero, One, R(2, 1)}
LoopCallWeights == {R(1, 100), One}
MaxLoopSeconds == 8

\* A variant of LoopIteration that leaves the time.
LoopIteration_NoProgress(time, duration) == time

\* time -= this.duration
LoopIteration(time, duration) == RSub(time, duration)

\* The next position and time of a call with the given weight on an
\* animation with the given duration and loop flag.
EvaluateStep(position, time, weight, duration, loop) ==
    CASE position = "gate" ->
            IF IsMinimal(weight) THEN <<"returned", time>> ELSE <<"loop", time>>
      [] position = "loop" ->
            IF loop /\ RGt(time, duration)
            THEN <<"loop", LoopIteration(time, duration)>>
            ELSE <<"tracks", time>>
      [] OTHER -> <<"returned", time>>

EnterEvaluate(time, weight, duration, loop) ==
    /\ applied[1] = "evaluate" => applied[3][1] = "returned"
    /\ Stateless(<<"evaluate", <<time, weight, duration, loop>>, <<"gate", time>>>>)

StepEvaluate ==
    /\ applied[1] = "evaluate"
    /\ applied[3][1] # "returned"
    /\ RLe(applied[3][2], R(MaxLoopSeconds, 1))
    /\ Stateless(<<"evaluate", applied[2],
                   EvaluateStep(applied[3][1], applied[3][2], applied[2][2], applied[2][3],
                                applied[2][4])>>)

NextLoop ==
    \/ \E t \in LoopCallTimes, w \in LoopCallWeights, d \in LoopCallDurations, l \in BOOLEAN :
          EnterEvaluate(t, w, d, l)
    \/ StepEvaluate

\* A call that has begun goes on.
SpecLoop == InitFn /\ [][NextLoop]_vars /\ WF_vars(StepEvaluate)

\* Curves as motion documents give them: a first point followed by up to
\* MaxGroups groups, each a type code and its points (three for code 1, one
\* for every other code).  The k-th point of a curve is at time k and has
\* the value k * k.
MaxGroups == 3
TypeCodes == {0, 1, 2, 3, 4}
GroupLists == UNION {[1..n -> TypeCodes] : n \in 0..MaxGroups}
TrackTimes == {R(-1, 1), R(1, 2), One, R(2, 1), R(4, 1), R(10, 1)}

PointNumbers(k) == <<R(k, 1), R(k * k, 1)>>

RECURSIVE GroupNumbers(_, _, _)
GroupNumbers(groups, i, k) ==
    IF i > Len(groups) THEN <<>>
    ELSE IF groups[i] = 1
    THEN <<R(1, 1)>> \o PointNumbers(k) \o PointNumbers(k + 1) \o PointNumbers(k + 2)
            \o GroupNumbers(groups, i + 1, k + 3)
    ELSE <<R(groups[i], 1)>> \o PointNumbers(k) \o GroupNumbers(groups, i + 1, k + 1)

\* c['Segments'] of the curve with the given groups.
SegmentsOf(groups) == PointNumbers(0) \o GroupNumbers(groups, 1, 1)

CurveOfGroups(groups) == [Target |-> "Parameter", Id |-> "ParamA", Segments |-> SegmentsOf(groups)]

\* track.evaluate(time): segments[0] of a track without segments is
\* undefined, and reading its evaluate throws.
AnimationTrack_evaluate(track, time) ==
    IF Len(track.segments) = 0
    THEN <<"TypeError">>
    ELSE <<"returned", FindSegment(track, 0, time), TrackEvaluate(track, time)>>

\* The track the constructor builds of a curve: the offset and the
\* evaluator of every segment, and the time and the value of every point.
ConstructTrack(groups) ==
    \E track \in {DeserializeTrack(CurveOfGroups(groups))} :
       Stateless(<<"new AnimationTrack", <<groups>>,
                   <<[i \in DOMAIN track.segments |-> track.segments[i].offset],
                     [i \in DOMAIN track.segments |-> track.segments[i].evaluate],
                     [i \in DOMAIN track.points |-> track.points[i].time],
                     [i \in DOMAIN track.points |-> track.points[i].value]>>>>)

\* evaluate(time) of the track the constructor builds of a curve.
EvaluateTrack(groups, time) ==
    \E track \in {DeserializeTrack(CurveOfGroups(groups))} :
       Stateless(<<"track.evaluate", <<groups, time>>,
                   AnimationTrack_evaluate(track, time)>>)

NextTrack ==
    \/ \E g \in GroupLists : ConstructTrack(g)
    \/ \E g \in GroupLists, t \in TrackTimes : EvaluateTrack(g, t)

SpecTrack == InitFn /\ [][NextTrack]_vars

(***************************************************************************)
(* Properties                                                              *)
(***************************************************************************)
Min(S) == CHOOSE x \in S : \A y \in S : x <= y
Max(S) == CHOOSE x \in S : \A y \in S : y <= x

DefaultOf(kind, idx) == IF kind = "param" THEN At(DefaultValues, idx) ELSE One

IndicesOf(kind) ==
    IF kind = "param" THEN 0..(Len(ParameterIds) - 1) ELSE 0..(Len(PartIds) - 1)

\* The places in writes of the writes to one index.
Positions(kind, idx) ==
    {j \in DOMAIN writes : writes[j].kind = kind /\ writes[j].idx = idx}

\* The writes to one index start with its reset to the default, the first
\* blend follows at once, and each later blend starts from the value the
\* blend before it left.
StackedOnce(kind, idx) ==
    LET P == Positions(kind, idx)
    IN  P # {} =>
            LET first == Min(P)
            IN  /\ writes[first].op = "reset"
                /\ writes[first].value = DefaultOf(kind, idx)
                /\ first + 1 \in P
                /\ \A j \in P \ {first} :
                      /\ writes[j].op = "blend"
                      /\ writes[j].source = writes[Max({k \in P : k < j})].value

\* Every index that a curve of an evaluated animation targets was written.
TargetsWritten ==
    \A k \in DOMAIN evals :
        ~evals[k].gated =>
            /\ \A n \in DOMAIN Animations[evals[k].anim].parameterTracks :
                  LET p == IndexOf(ParameterIds, Animations[evals[k].anim].parameterTracks[n].targetId)
                  IN  p >= 0 => Positions("param", p) # {}
            /\ \A n \in DOMAIN Animations[evals[k].anim].partOpacityTracks :
                  LET p == IndexOf(PartIds, Animations[evals[k].anim].partOpacityTracks[n].targetId)
                  IN  p >= 0 => Positions("part", p) # {}

\* C1: within one tick, every parameter and part index that an evaluated
\* curve targets is reset to its default exactly once, immediately before
\* the first blend written to it; every later blend to the index (a later
\* curve, the goal animation, a later layer) takes as its source the value
\* the previous blend left.
C1_ResetOncePerTick ==
    lastOp.op = "tick" =>
        /\ TargetsWritten
        /\ \A kind \in {"param", "part"} : \A idx \in IndicesOf(kind) : StackedOnce(kind, idx)

\* A tick in which the crossfading first layer (current and goal animation)
\* and the second layer all blend into one parameter.
C1_Witness ==
    /\ lastOp.op = "tick"
    /\ \E idx \in IndicesOf("param") : Cardinality(Positions("param", idx)) >= 5
    /\ \E j, k, m \in DOMAIN evals :
          /\ j < k
          /\ evals[j].layer = 1 /\ ~evals[j].gated
          /\ evals[k].layer = 1 /\ ~evals[k].gated
          /\ evals[m].layer = 2 /\ ~evals[m].gated

\* C2: Animation.evaluate with weight <= 0.01 changes nothing: not the
\* target values, not the touched flags, not _lastTime, and it invokes no
\* callback.
C2_WeightGateNoEffect ==
    [][(lastOp'.op = "evaluate" /\ RLe(lastOp'.weight, R(1, 100))) =>
           /\ values' = values
           /\ opacities' = opacities
           /\ stackFlags' = stackFlags
           /\ lastTime' = lastTime
           /\ writes' = <<>>
           /\ calls' = <<>>]_vars

\* An evaluation with weight 0.01 at time 1 of an animation that was last
\* evaluated at 1.9 and has a callback: an event lies in the window.
C2_Witness ==
    /\ lastOp.op = "evaluate"
    /\ lastOp.weight = R(1, 100)
    /\ lastOp.num = One
    /\ lastTime[lastOp.anim] = R(19, 10)
    /\ callbacks[lastOp.anim] # <<>>

\* C3: play with fadeDuration = 0, or on a layer without a current
\* animation, leaves the layer playing the animation from time 0 with no
\* goal animation.
C3_PlayImmediatelyDiscardsCrossfade ==
    [][\A i \in DOMAIN layers :
          (/\ lastOp'.op = "play"
           /\ lastOp'.layer = i
           /\ (lastOp'.num = Zero \/ layers[i].animation = "none")) =>
              /\ layers'[i].animation = lastOp'.anim
              /\ layers'[i].time = Zero
              /\ layers'[i].play
              /\ layers'[i].goalAnimation = "none"]_vars

\* C4: play with fadeDuration > 0 on a layer that has a current animation
\* sets goalAnimation, goalTime = 0, fadeTime = 0 and fadeDuration, and
\* leaves the rest of the layer (currentAnimation, currentTime, playing)
\* as it was.
C4_PlayStartsCrossfade ==
    [][\A i \in DOMAIN layers :
          (/\ lastOp'.op = "play"
           /\ lastOp'.layer = i
           /\ RGt(lastOp'.num, Zero)
           /\ layers[i].animation # "none") =>
              layers'[i] = [layers[i] EXCEPT !.goalAnimation = lastOp'.anim,
                                             !.goalTime = Zero,
                                             !.fadeTime = Zero,
                                             !.fadeDuration = lastOp'.num]]_vars

\* A crossfade started on a paused layer whose clock is not 0.
C4_Witness ==
    /\ lastOp.op = "play"
    /\ RGt(lastOp.num, Zero)
    /\ layers[1].goalAnimation = lastOp.anim
    /\ layers[1].animation \notin {"none", lastOp.anim}
    /\ ~layers[1].play
    /\ RGt(layers[1].time, Zero)
    /\ layers[1].fadeTime = Zero

\* C5: an _evaluate call of a crossfading layer that finds
\* fadeTime > fadeDuration ends with the goal animation promoted
\* (currentAnimation = the goal, currentTime = goalTime, no goal); one that
\* finds fadeTime <= fadeDuration leaves both animations; so after a tick a
\* layer with a goal animation has fadeTime <= fadeDuration.
C5_CrossfadeFinalization ==
    lastOp.op = "tick" =>
        /\ \A k \in DOMAIN observed :
              LET o == observed[k]
                  l == layers[o.layer]
              IN  (o.animation # "none" /\ o.goalAnimation # "none") =>
                      IF RGt(o.fadeTime, o.fadeDuration)
                      THEN /\ l.animation = o.goalAnimation
                           /\ l.time = o.goalTime
                           /\ l.goalAnimation = "none"
                      ELSE /\ l.animation = o.animation
                           /\ l.goalAnimation = o.goalAnimation
        /\ \A i \in DOMAIN layers :
              layers[i].goalAnimation # "none" =>
                  RLe(layers[i].fadeTime, layers[i].fadeDuration)

\* A tick that finalized a crossfade between two different animations.
C5_Witness ==
    /\ lastOp.op = "tick"
    /\ \E k \in DOMAIN observed :
          /\ observed[k].goalAnimation \notin {"none", observed[k].animation}
          /\ observed[k].animation # "none"
          /\ RGt(observed[k].fadeTime, observed[k].fadeDuration)
          /\ layers[observed[k].layer].animation = observed[k].goalAnimation

\* C6: an evaluation at the time of the previous evaluation invokes no
\* callback (no event lies strictly between the two times).
C6_NoCallbackWithoutProgress ==
    (/\ lastOp.op = "evaluate"
     /\ ~evals[1].gated
     /\ evals[1].t = evals[1].last) => calls = <<>>

\* The calls with one event's value.
CallsOf(value) == SelectSeq(calls, LAMBDA c : c.value = value)

\* The evaluation of C7: animation A (duration 2, events at 0.1 and 1.95),
\* last evaluated at 1.9, evaluated at 0.1 with callbacks registered.
C7_Case ==
    /\ lastOp.op = "evaluate"
    /\ lastOp.anim = "A"
    /\ ~evals[1].gated
    /\ evals[1].last = R(19, 10)
    /\ evals[1].t = R(1, 10)
    /\ callbacks["A"] # <<>>

\* C7 as claimed: that evaluation invokes every registered callback with
\* the value of the event at 0.1.
C7_WrapFiresEventAtEvaluationTime ==
    C7_Case => Len(CallsOf("e1")) = Len(callbacks["A"])

\* C7 as amended: that evaluation invokes no callback with the value of the
\* event at 0.1; it invokes the callbacks, in order, with the value of the
\* event at 1.95, which lies strictly inside (1.9, 2.0).
C7_WrapSkipsEventAtEvaluationTime ==
    C7_Case =>
        /\ CallsOf("e1") = <<>>
        /\ calls = callAnimationCallback("A", callbacks["A"], "e2")

C7_Witness == C7_Case /\ calls # <<>>

\* The evaluations of a looping animation at a time >= 0.
LoopEvals ==
    {k \in DOMAIN evals :
        /\ ~evals[k].gated
        /\ Animations[evals[k].anim].loop
        /\ RGt(Animations[evals[k].anim].duration, Zero)
        /\ RGe(evals[k].time, Zero)}

\* C8 as claimed: the time a looping animation evaluates at and stores as
\* _lastTime lies in [0, duration).
C8_LoopTimeHalfOpen ==
    \A k \in LoopEvals :
        /\ RLe(Zero, evals[k].t)
        /\ RLt(evals[k].t, Animations[evals[k].anim].duration)

\* C8 as amended: it lies in [0, duration], it is 0 only for the time 0
\* (so a positive multiple of the duration is evaluated at the duration),
\* and it is what the animation stores as _lastTime.
C8_LoopTimeClosedAbove ==
    \A k \in LoopEvals :
        /\ RLe(Zero, evals[k].t)
        /\ RLe(evals[k].t, Animations[evals[k].anim].duration)
        /\ (evals[k].t = Zero <=> evals[k].time = Zero)
        /\ (lastOp.op = "evaluate" => lastTime[evals[k].anim] = evals[k].t)

\* The time 4 = 2 * duration evaluated at the duration.
C8_Witness ==
    /\ lastOp.op = "evaluate"
    /\ lastOp.num = R(4, 1)
    /\ ~evals[1].gated
    /\ evals[1].t = Animations[lastOp.anim].duration
    /\ lastTime[lastOp.anim] = R(2, 1)

\* The number of loops that C9 is checked for.
MaxLoops == 3

\* C9: for a looping animation of duration D > 0, 0 < t < D and k >= 1
\* (with k = 0 the two evaluations are the same call),
\* evaluate at t + k*D does what evaluate at t does from the same state:
\* the same target values, flags, _lastTime and callback invocations.
C9_LoopFolding ==
    [][lastOp'.op = "evaluate" =>
          \A t \in EvalTimes : \A k \in 1..MaxLoops :
              LET a == lastOp'.anim
                  D == Animations[a].duration
              IN  (/\ Animations[a].loop
                   /\ RGt(D, Zero)
                   /\ RLt(Zero, t) /\ RLt(t, D)
                   /\ lastOp'.num = RAdd(t, RMul(R(k, 1), D))) =>
                      \E e \in {AnimationEvaluate(0, a, t, lastOp'.weight, lastOp'.blend,
                                                  EvalState(stackFlags))} :
                          /\ values' = e.values
                          /\ opacities' = e.opacities
                          /\ stackFlags' = e.flags
                          /\ lastTime' = e.lastTime
                          /\ writes' = e.writes
                          /\ calls' = e.calls]_vars

\* The evaluation at 5 = 1 + 2*2 of the animation of duration 2, with an
\* event fired.
C9_Witness ==
    /\ lastOp.op = "evaluate"
    /\ lastOp.num = R(5, 1)
    /\ ~evals[1].gated
    /\ lastTime[lastOp.anim] = One
    /\ calls # <<>>
    /\ writes # <<>>

\* The three clocks of every layer.
Clocks(ls) == [i \in DOMAIN ls |-> <<ls[i].time, ls[i].goalTime, ls[i].fadeTime>>]

\* C10: with timeScale <= 0 a tick with any deltaTime leaves currentTime,
\* goalTime and fadeTime of every layer as they were.
C10_NonPositiveTimeScaleFreezes ==
    [][(lastOp'.op = "tick" /\ RLe(timeScale, Zero)) => Clocks(layers') = Clocks(layers)]_vars

\* A tick of half a second on a playing layer of an animator with a
\* negative timeScale.
C10_Witness ==
    /\ lastOp.op = "tick"
    /\ lastOp.num = R(1, 2)
    /\ RLt(timeScale, Zero)
    /\ layers[1].play
    /\ layers[1].animation # "none"
    /\ layers[1].goalAnimation # "none"

\* C11: pause sets playing to false and resume sets it to true, and neither
\* changes anything else; stop sets playing to false and currentTime to 0
\* and leaves the animations, goalTime, fadeTime and fadeDuration; a tick
\* changes no clock of a layer that is not playing.
C11_PauseResumeStop ==
    [][\A i \in DOMAIN layers :
          /\ (lastOp'.op \in {"pause", "resume", "stop"} /\ lastOp'.layer = i) =>
                 /\ layers'[i] =
                        CASE lastOp'.op = "pause" -> [layers[i] EXCEPT !.play = FALSE]
                          [] lastOp'.op = "resume" -> [layers[i] EXCEPT !.play = TRUE]
                          [] lastOp'.op = "stop" -> [layers[i] EXCEPT !.play = FALSE, !.time = Zero]
                 /\ UNCHANGED <<values, opacities, lastTime, callbacks, timeScale>>
          /\ (lastOp'.op = "tick" /\ ~layers[i].play) =>
                 Clocks(layers')[i] = Clocks(layers)[i]]_vars

\* A tick of half a second, at a positive timeScale, of a layer that was
\* stopped in the middle of a crossfade.
C11_Witness ==
    /\ lastOp.op = "tick"
    /\ lastOp.num = R(1, 2)
    /\ RGt(timeScale, Zero)
    /\ ~layers[1].play
    /\ layers[1].goalAnimation # "none"
    /\ layers[1].time = Zero
    /\ RGt(layers[1].goalTime, Zero)

\* The curve of animation a that targets index idx of the parameters
\* ("param") or the parts ("part").
CurveOf(a, kind, idx) ==
    LET tracks == IF kind = "param" THEN Animations[a].parameterTracks
                  ELSE Animations[a].partOpacityTracks
        ids == IF kind = "param" THEN ParameterIds ELSE PartIds
    IN  tracks[CHOOSE n \in DOMAIN tracks : IndexOf(ids, tracks[n].targetId) = idx]

\* C12: with the multiply blender every value v that Animation.evaluate
\* writes becomes v * (1 + (sampled - 1) * weight), sampled being the
\* curve's value at the evaluation time and weight the weight of the call.
C12_MultiplyScalesByWeight ==
    (lastOp.op = "evaluate" /\ lastOp.blend = "MULTIPLY") =>
        \A j \in DOMAIN writes :
            writes[j].op = "blend" =>
                LET sampled == TrackEvaluate(CurveOf(lastOp.anim, writes[j].kind, writes[j].idx),
                                             evals[1].t)
                IN  writes[j].value =
                        RMul(writes[j].source,
                             RAdd(One, RMul(RSub(sampled, One), lastOp.weight)))

\* The calls of a blender: its name, arguments and result.
BlendCall == applied[1] = "blend"
BlendName == applied[2][1]
BlendSource == applied[2][2]
BlendDestination == applied[2][3]
BlendInitial == applied[2][4]
BlendWeight == applied[2][5]
BlendResult == applied[3]

\* C13: the override blender returns destination * weight +
\* source * (1 - weight), whatever initial is: destination when weight = 1
\* and source when weight = 0.
C13_OverrideBlend ==
    (BlendCall /\ BlendName = "OVERRIDE") =>
        /\ BlendResult = RAdd(RMul(BlendDestination, BlendWeight),
                              RMul(BlendSource, RSub(One, BlendWeight)))
        /\ BlendWeight = One => BlendResult = BlendDestination
        /\ BlendWeight = Zero => BlendResult = BlendSource

\* The override blender called with weight 1 and three different numbers.
C13_Witness ==
    /\ BlendCall
    /\ BlendName = "OVERRIDE"
    /\ BlendWeight = One
    /\ BlendSource # BlendDestination
    /\ BlendInitial \notin {BlendSource, BlendDestination}
    /\ BlendResult = BlendDestination

\* The curves among tracks whose targetId is one of ids.
KnownCurves(tracks, ids) ==
    {n \in DOMAIN tracks : \E k \in DOMAIN ids : ids[k] = tracks[n].targetId}

\* The blends written to the parameters ("param") or the parts ("part").
BlendsTo(kind) == {j \in DOMAIN writes : writes[j].op = "blend" /\ writes[j].kind = kind}

\* The flags that an evaluation of tracks sets in flags.
FlagsAfter(flags, tracks, ids) ==
    [k \in DOMAIN ids |->
        flags[k] \/ \E n \in DOMAIN tracks : tracks[n].targetId = ids[k]]

\* C14: an evaluation that is not gated writes one blend for every curve
\* whose targetId the target has and none for a curve whose targetId it has
\* not: such a curve writes no value and sets no flag, and the values that
\* no curve targets stay as they were.
C14_UnknownIdSkipped ==
    [][(lastOp'.op = "evaluate" /\ ~evals'[1].gated) =>
          LET anim == Animations[lastOp'.anim]
          IN  /\ Cardinality(BlendsTo("param")') =
                     Cardinality(KnownCurves(anim.parameterTracks, ParameterIds))
              /\ Cardinality(BlendsTo("part")') =
                     Cardinality(KnownCurves(anim.partOpacityTracks, PartIds))
              /\ stackFlags' = <<FlagsAfter(stackFlags[1], anim.parameterTracks, ParameterIds),
                                 FlagsAfter(stackFlags[2], anim.partOpacityTracks, PartIds)>>
              /\ DOMAIN values' = DOMAIN values
              /\ DOMAIN opacities' = DOMAIN opacities
              /\ \A k \in DOMAIN ParameterIds :
                     (\A n \in DOMAIN anim.parameterTracks :
                         anim.parameterTracks[n].targetId # ParameterIds[k]) =>
                         values'[k] = values[k]]_vars

\* An evaluation of an animation that has a parameter curve and a part
\* curve of unknown ids, each followed or preceded by a curve that is
\* applied.
C14_Witness ==
    /\ lastOp.op = "evaluate"
    /\ ~evals[1].gated
    /\ \E n \in DOMAIN Animations[lastOp.anim].parameterTracks :
          n \notin KnownCurves(Animations[lastOp.anim].parameterTracks, ParameterIds)
    /\ \E n \in DOMAIN Animations[lastOp.anim].partOpacityTracks :
          n \notin KnownCurves(Animations[lastOp.anim].partOpacityTracks, PartIds)
    /\ BlendsTo("param") # {}
    /\ BlendsTo("part") # {}

\* C15: a tick evaluates nothing for a layer that has no current
\* animation, whatever its playing flag and clocks; when no layer has one
\* the tick writes no value, sets no flag and invokes no callback.
C15_IdleLayerTick ==
    [][lastOp'.op = "tick" =>
          /\ \A i \in DOMAIN layers :
                 layers[i].animation = "none" =>
                     /\ \A k \in DOMAIN evals' : evals'[k].layer # i
                     /\ layers'[i].animation = "none"
                     /\ layers'[i].goalAnimation = layers[i].goalAnimation
          /\ (\A i \in DOMAIN layers : layers[i].animation = "none") =>
                 /\ writes' = <<>>
                 /\ calls' = <<>>
                 /\ stackFlags' = FreshStackFlags
                 /\ UNCHANGED <<values, opacities, lastTime>>]_vars

\* A tick of half a second of a layer that was resumed and ticked but on
\* which play was never called.
C15_Witness ==
    /\ lastOp.op = "tick"
    /\ lastOp.num = R(1, 2)
    /\ layers[1].animation = "none"
    /\ layers[1].play
    /\ RGt(layers[1].time, R(1, 2))
    /\ observed # <<>>

\* The constructions from a document that lacks Meta or Curves.
MalformedConstruction ==
    /\ applied[1] = "new Animation"
    /\ ("Meta" \notin DOMAIN Motions[applied[2][1]] \/ "Curves" \notin DOMAIN Motions[applied[2][1]])

C17_ReadmeConfigPasses ==
    (applied[1] = "setup" /\ applied[2] = <<"README">>) => applied[3] = <<"loadResources">>

\* The evaluate calls a tick made for a layer, in order.
EvalsOf(layer) == SelectSeq(evals, LAMBDA e : e.layer = layer)

\* An evaluate call of animation a at the given time with the given weight.
EvaluatedAt(e, a, time, weight) == e.anim = a /\ e.time = time /\ e.weight = weight

CrossfadeTick(op, obs, es) ==
    /\ op.op = "tick"
    /\ Len(obs) = 1
    /\ obs[1].animation # "none"
    /\ obs[1].goalAnimation # "none"
    /\ RGt(obs[1].fadeDuration, Zero)
    /\ Len(es) = 2

\* C19: from one tick of a crossfade to the next tick of the same
\* crossfade, the weight given to the goal animation does not decrease and
\* the weight given to the current animation does not increase.
C19_GoalFadesIn ==
    [][(/\ CrossfadeTick(lastOp, observed, evals)
        /\ CrossfadeTick(lastOp', observed', evals'))
       => (/\ RGe(evals'[2].weight, evals[2].weight)
           /\ RLe(evals'[1].weight, evals[1].weight))]_vars

\* The arguments and the result of an isEventTriggered call.
TriggerCall == applied[1] = "isEventTriggered"
EventTime == applied[2][1]
TimeForward == applied[2][2]
TimeBack == applied[2][3]
Duration == applied[2][4]
Triggered == applied[3]

\* The open windows of C20.
InOpenWindows ==
    \/ /\ RGt(TimeForward, TimeBack)
       /\ RLt(TimeBack, EventTime) /\ RLt(EventTime, TimeForward)
    \/ /\ RLe(TimeForward, TimeBack)
       /\ \/ RLt(Zero, EventTime) /\ RLt(EventTime, TimeForward)
          \/ RLt(TimeBack, EventTime) /\ RLt(EventTime, Duration)

\* C20 as claimed: isEventTriggered is true exactly in the open windows,
\* and an event at the current evaluation time, the previous evaluation
\* time, 0 or the duration never triggers.
C20_OpenWindows ==
    TriggerCall =>
        /\ Triggered <=> InOpenWindows
        /\ EventTime \in {TimeForward, TimeBack, Zero, Duration} => ~Triggered

\* C20 as amended: isEventTriggered is true exactly in the open windows; an
\* event at the current evaluation time, the previous evaluation time or 0
\* never triggers; an event at the duration does not trigger while the
\* evaluation time is within the duration, and triggers when the
\* evaluation time passes the duration.
C20_OpenWindowsWithinDuration ==
    TriggerCall =>
        /\ Triggered <=> InOpenWindows
        /\ EventTime \in {TimeForward, TimeBack, Zero} => ~Triggered
        /\ (EventTime = Duration /\ RLe(TimeForward, Duration)) => ~Triggered
        /\ (EventTime = Duration /\ RLt(TimeBack, Duration) /\ RLt(Duration, TimeForward))
               => Triggered

\* A wrapped call (timeForward < timeBack) whose event lies between the
\* previous evaluation time and the duration, and triggers.
C20_Witness ==
    /\ TriggerCall
    /\ RLt(TimeForward, TimeBack)
    /\ RLt(TimeBack, EventTime)
    /\ RLt(EventTime, Duration)
    /\ Triggered

\* What a tick of dt adds to the clocks of layer l under time scale scale.
ClockGrowth(l, dt, scale) ==
    IF l.play /\ RGt(RMul(dt, IF RGt(scale, Zero) THEN scale ELSE Zero), TickEpsilon)
    THEN RMul(dt, IF RGt(scale, Zero) THEN scale ELSE Zero)
    ELSE Zero

OtherContents == {<<(<<R(7, 1), R(-2, 1)>>), (<<R(1, 3)>>)>>}

\* The same tick of the same layers, run on a target whose values and
\* opacities are vs and os.
TickOn(ls, scale, deltaTime, vs, os) ==
    EvaluateLayers(UpdateLayers(ls, ScaleDeltaTime(deltaTime, scale)), 1,
                   [EvalState(FreshStackFlags) EXCEPT !.values = vs, !.opacities = os])

\* The two runs wrote the same indices and left equal values there.
AgreeWhereWritten(e, vs, os, flags) ==
    /\ e.flags = flags
    /\ \A p \in 1..Len(ParameterIds) : flags[1][p] => e.values[p] = vs[p]
    /\ \A p \in 1..Len(PartIds) : flags[2][p] => e.opacities[p] = os[p]

\* C22: a tick run on any other pre-tick contents of parameters.values and
\* parts.opacities writes the same indices and ends with the same value at
\* every index written during the tick.
C22_WrittenValuesIgnorePreTickValues ==
    [][lastOp'.op = "tick" =>
          \A other \in OtherContents :
              AgreeWhereWritten(TickOn(layers, timeScale, lastOp'.num, other[1], other[2]).e,
                                values', opacities', stackFlags')]_vars

\* A tick that reset a parameter whose pre-tick value was not its default
\* and then blended it twice, once by each layer.
C22_Witness ==
    /\ lastOp.op = "tick"
    /\ \E j \in DOMAIN writes :
          /\ writes[j].op = "reset"
          /\ writes[j].kind = "param"
          /\ writes[j].source # writes[j].value
          /\ Cardinality({k \in DOMAIN writes : /\ writes[k].op = "blend"
                                                 /\ writes[k].kind = "param"
                                                 /\ writes[k].idx = writes[j].idx}) = 2

\* The position in the motion document of animation a of the user event
\* with the given value.
DocumentPosition(a, value) ==
    CHOOSE i \in DOMAIN Motions[a].UserData : Motions[a].UserData[i].Value = value

\* The values of the user events of animation a that an evaluation at t
\* after one at last triggers.
TriggeredValues(a, t, last) ==
    {Motions[a].UserData[i].Value : i \in
        {j \in DOMAIN Motions[a].UserData :
            isEventTriggered(Motions[a].UserData[j].Time, t, last, Animations[a].duration)}}

\* cs consists of one block per triggered event, the blocks in document
\* order, each block calling every callback of cbs once with the event's
\* value, in the order of cbs.
CalledInOrder(a, cs, cbs, triggered) ==
    IF cbs = <<>> THEN cs = <<>>
    ELSE /\ Len(cs) = Len(cbs) * Cardinality(triggered)
         /\ {cs[k].value : k \in DOMAIN cs} = triggered
         /\ \A k \in DOMAIN cs :
               /\ cs[k].anim = a
               /\ cs[k].cb = cbs[((k - 1) % Len(cbs)) + 1]
               /\ cs[k].value = cs[((k - 1) \div Len(cbs)) * Len(cbs) + 1].value
         /\ \A j, k \in DOMAIN cs :
               (j - 1) \div Len(cbs) < (k - 1) \div Len(cbs) =>
                   DocumentPosition(a, cs[j].value) < DocumentPosition(a, cs[k].value)

\* after is before without its first cb, and before itself if cb is not in it.
FirstRemoved(before, after, cb) ==
    IF \A i \in DOMAIN before : before[i] # cb
    THEN after = before
    ELSE \E i \in DOMAIN before :
            /\ before[i] = cb
            /\ \A j \in 1..(i - 1) : before[j] # cb
            /\ after = SubSeq(before, 1, i - 1) \o SubSeq(before, i + 1, Len(before))

FadeRunning ==
    /\ layers[1].play
    /\ layers[1].goalAnimation # "none"
    /\ RGt(timeScale, Zero)

\* The crossfade is over, or play, pause or stop was just called.
FadeOverOrInterrupted ==
    \/ layers[1].goalAnimation = "none"
    \/ lastOp.op \in {"play", "pause", "stop"}

\* C24: a playing, crossfading layer ticked under a positive time scale
\* has its crossfade finalized (or play, pause or stop is called), and the
\* tick that finalizes makes the goal animation the current one; a tick of
\* a crossfading layer that is not playing, or under a time scale <= 0,
\* leaves both animations.
C24_CrossfadeEnds ==
    /\ FadeRunning ~> FadeOverOrInterrupted
    /\ [][lastOp'.op = "tick" /\ layers[1].goalAnimation # "none" =>
             /\ layers'[1].goalAnimation = "none" =>
                    layers'[1].animation = layers[1].goalAnimation
             /\ (~layers[1].play \/ ~RGt(timeScale, Zero)) =>
                    /\ layers'[1].goalAnimation = layers[1].goalAnimation
                    /\ layers'[1].animation = layers[1].animation]_vars

\* The tick that finalized a crossfade from A to B of one second.
C24_Witness ==
    /\ lastOp.op = "tick"
    /\ Len(observed) = 1
    /\ observed[1].animation = "A"
    /\ observed[1].goalAnimation = "B"
    /\ observed[1].fadeDuration = One
    /\ layers[1].animation = "B"
    /\ layers[1].goalAnimation = "none"
    /\ layers[1].play

\* The evaluate call in progress: its arguments and its position.
EvaluateCall == applied[1] = "evaluate"
CallTime == applied[2][1]
CallWeight == applied[2][2]
CallDuration == applied[2][3]
CallLoop == applied[2][4]
CallPosition == applied[3][1]

\* C25: an evaluate call on a looping animation whose duration is positive
\* returns; one on a looping animation whose duration is <= 0, with
\* weight > 0.01 and time > duration, never leaves its loop.
C25_LoopTermination ==
    /\ (EvaluateCall /\ CallLoop /\ RGt(CallDuration, Zero)) ~> (EvaluateCall /\ CallPosition = "returned")
    /\ [](/\ EvaluateCall /\ CallLoop
          /\ RLe(CallDuration, Zero)
          /\ RGt(CallWeight, WeightGate)
          /\ RGt(CallTime, CallDuration)
          => CallPosition \in {"gate", "loop"})

\* A call at time 7 on a looping animation of duration 2 that has returned
\* after folding the time to 1.
C25_Witness ==
    /\ EvaluateCall
    /\ CallLoop
    /\ CallTime = R(7, 1)
    /\ CallDuration = R(2, 1)
    /\ applied[3] = <<"returned", One>>

\* C26: goalTime equals fadeTime in every state of every layer, and the
\* tick that finalizes a crossfade leaves as currentTime the fadeTime that
\* its _evaluate found, which is greater than fadeDuration.
C26_GoalTimeIsFadeTime ==
    /\ \A i \in DOMAIN layers : layers[i].goalTime = layers[i].fadeTime
    /\ lastOp.op = "tick" =>
          \A k \in DOMAIN observed :
              (/\ observed[k].animation # "none"
               /\ observed[k].goalAnimation # "none"
               /\ layers[observed[k].layer].goalAnimation = "none") =>
                  /\ layers[observed[k].layer].time = observed[k].fadeTime
                  /\ RGt(layers[observed[k].layer].time, observed[k].fadeDuration)

\* A tick that finalized a crossfade begun when the current animation had
\* already played: the promoted time differs from the time it replaced.
C26_Witness ==
    /\ lastOp.op = "tick"
    /\ Len(observed) = 1
    /\ observed[1].animation # "none"
    /\ observed[1].goalAnimation # "none"
    /\ layers[1].goalAnimation = "none"
    /\ observed[1].time # observed[1].fadeTime
    /\ layers[1].time = observed[1].fadeTime

\* C27: a layer that has a goal animation has a current animation and a
\* positive fadeDuration, and a layer that has a current animation keeps
\* having one.
C27_CrossfadeNeedsCurrent ==
    /\ [](\A i \in DOMAIN layers :
            layers[i].goalAnimation # "none" =>
                /\ layers[i].animation # "none"
                /\ RGt(layers[i].fadeDuration, Zero))
    /\ [][\A i \in DOMAIN layers :
             layers[i].animation # "none" => layers'[i].animation # "none"]_vars

\* A crossfading layer that has just been stopped.
C27_Witness ==
    /\ lastOp.op = "stop"
    /\ layers[1].goalAnimation # "none"
    /\ layers[1].animation # "none"
    /\ ~layers[1].play
    /\ RGt(layers[1].fadeTime, Zero)

\* The time of the first point of segment r (0-based) of a track.
FirstPointTime(track, r) == At(track.points, At(track.segments, r).offset).time

\* Segment r is the last one, or the next segment begins at or after time.
StopsAt(track, r, time) ==
    \/ r = Len(track.segments) - 1
    \/ RGe(FirstPointTime(track, r + 1), time)

\* evaluate(time) of the track chose segment s and gave value.
ChoseSegment(track, time, s, value) ==
    /\ s \in 0..(Len(track.segments) - 1)
    /\ StopsAt(track, s, time)
    /\ \A r \in 0..(s - 1) : ~StopsAt(track, r, time)
    /\ value = SegmentEvaluate(At(track.segments, s).evaluate, track.points,
                               At(track.segments, s).offset, time)
    /\ \A r \in 0..(Len(track.segments) - 2) :
          /\ time = FirstPointTime(track, r + 1)
          /\ \A q \in 1..r : RLt(FirstPointTime(track, q), time)
          => s = r
    /\ Len(track.segments) = 1 => s = 0

\* C28: AnimationTrack.evaluate(time) evaluates the first segment that is the
\* last one or whose successor begins at or after the time: the earlier
\* segment at a keyframe two segments share, and the only segment of a curve
\* with one segment at every time.
C28_SegmentChoice ==
    applied[1] = "track.evaluate" /\ applied[3][1] = "returned" =>
        ChoseSegment(DeserializeTrack(CurveOfGroups(applied[2][1])), applied[2][2],
                     applied[3][2], applied[3][3])

\* A time on the keyframe the first two of three segments share.
C28_Witness ==
    /\ applied[1] = "track.evaluate"
    /\ applied[2] = <<(<<0, 1, 2>>), One>>
    /\ applied[3] = <<"returned", 0, One>>

\* The evaluator the constructor chooses for a type code.
EvaluatorOfCode(code) ==
    CASE code = 1 -> "BEZIER"
      [] code = 2 -> "STEPPED"
      [] code = 3 -> "INVERSE_STEPPED"
      [] OTHER -> "LINEAR"

\* The number of points a segment spans after its first one.
SpanOf(evaluate) == IF evaluate = "BEZIER" THEN 3 ELSE 1

\* The segments of the given offsets and evaluators are those of the
\* groups, one after the other, over numberOfPoints points.
Contiguous(groups, offsets, evaluates, numberOfPoints) ==
    /\ Len(offsets) = Len(groups)
    /\ Len(evaluates) = Len(groups)
    /\ \A i \in DOMAIN groups : evaluates[i] = EvaluatorOfCode(groups[i])
    /\ Len(groups) > 0 =>
          /\ offsets[1] = 0
          /\ \A i \in 1..(Len(groups) - 1) :
                offsets[i + 1] = offsets[i] + (IF groups[i] = 1 THEN 3 ELSE 1)
          /\ offsets[Len(groups)] + SpanOf(evaluates[Len(groups)]) = numberOfPoints - 1
    /\ \A i \in DOMAIN groups :
          groups[i] \notin {0, 1, 2, 3} =>
              /\ evaluates[i] = "LINEAR"
              /\ (IF i < Len(groups) THEN offsets[i + 1] ELSE numberOfPoints - 1)
                    = offsets[i] + 1

\* C29: the segments the constructor builds of a curve are contiguous: the
\* first begins at point 0, each next one three points later after a Bezier
\* segment and one point later otherwise, and the last one ends at the last
\* point; a group with an unknown type code gives one linear segment and
\* one point.
C29_SegmentsContiguous ==
    applied[1] = "new AnimationTrack" =>
        /\ Contiguous(applied[2][1], applied[3][1], applied[3][2], Len(applied[3][3]))
        /\ applied[3][3] = [k \in 1..Len(applied[3][3]) |-> R(k - 1, 1)]
        /\ applied[3][4] = [k \in 1..Len(applied[3][4]) |-> R((k - 1) * (k - 1), 1)]

\* A curve of a Bezier group, a group with an unknown type code and a
\* stepped group.
C29_Witness ==
    /\ applied[1] = "new AnimationTrack"
    /\ applied[2][1] = <<1, 4, 2>>
    /\ applied[3][1] = <<0, 3, 4>>
    /\ applied[3][2] = <<"BEZIER", "LINEAR", "STEPPED">>
    /\ Len(applied[3][3]) = 6

\* The parameter ("param") or part opacity ("part") curves of animation a.
TracksOfKind(a, kind) ==
    IF kind = "param" THEN Animations[a].parameterTracks ELSE Animations[a].partOpacityTracks

\* The targetIds of the curves of the given kind of the animations that the
\* evaluations es evaluated with a weight above 0.01.
TargetedIds(es, kind) ==
    UNION {{TracksOfKind(es[n].anim, kind)[k].targetId :
                k \in 1..Len(TracksOfKind(es[n].anim, kind))} :
           n \in {m \in DOMAIN es : RGt(es[m].weight, R(1, 100))}}

\* No write of ws is at an index of ids whose id is not in targeted, and
\* the contents after are those before at every such index.
KeptWhereNotTargeted(kind, ids, targeted, ws, before, after) ==
    \A p \in 1..Len(ids) :
        ids[p] \notin targeted =>
            /\ after[p] = before[p]
            /\ \A j \in DOMAIN ws : ~(ws[j].kind = kind /\ ws[j].idx = p - 1)

\* C30: a tick writes parameters.values and parts.opacities only at indices
\* whose id is the targetId of a parameter (part opacity) curve of an
\* animation it evaluated with a weight above 0.01; the other entries keep
\* their values, and nothing but values and opacities is written.
C30_TickWritesTargetedOnly ==
    [][lastOp'.op = "tick" =>
          /\ KeptWhereNotTargeted("param", ParameterIds, TargetedIds(evals', "param"),
                                  writes', values, values')
          /\ KeptWhereNotTargeted("part", PartIds, TargetedIds(evals', "part"),
                                  writes', opacities, opacities')
          /\ \A j \in DOMAIN writes' :
                /\ writes'[j].kind \in {"param", "part"}
                /\ writes'[j].idx \in 0..(Len(IF writes'[j].kind = "param"
                                               THEN ParameterIds ELSE PartIds) - 1)]_vars

\* A tick that evaluated an animation with curves of ParamA only and left
\* ParamB at the value an earlier tick gave it.
C30_Witness ==
    /\ lastOp.op = "tick"
    /\ \E n \in DOMAIN evals : RGt(evals[n].weight, R(1, 100))
    /\ "ParamB" \notin TargetedIds(evals, "param")
    /\ "ParamA" \in TargetedIds(evals, "param")
    /\ values[2] # DefaultValues[2]
    /\ \E j \in DOMAIN writes : writes[j].kind = "param" /\ writes[j].idx = 0
    /\ \A j \in DOMAIN writes : ~(writes[j].kind = "param" /\ writes[j].idx = 1)

=============================================================================
